---- MODULE Spec2Model ----
(***************************************************************************)
(* TorchCommXCCLBootstrap: rendezvous of the ranks of a communication      *)
(* group.  Every process of the group is one rank; a process owns the      *)
(* static key counter and, at any time, at most one live coordinator.      *)
(* Strings whose characters matter are sequences of one-character strings. *)
(***************************************************************************)
EXTENDS Integers, Sequences, FiniteSets, TLC

\* ------------------------------------------------------------------ bounds
MaxRanks == 2
MaxOps == 4
MaxDevices == 2
UniqueIdSize == 2
NumThreads == 2
MaxThreadCalls == 2
MaxHints == 2
MaxPasses == 2
MaxDrivers == 2

Procs == 0 .. (MaxRanks - 1)
Threads == 1 .. NumThreads
KeyNums == 0 .. MaxOps
IdNums == 1 .. (MaxOps + 1)

\* --------------------------------------------------------------- constants
kUniqueidXchgMethodAuto == <<"a", "u", "t", "o">>
kUniqueidXchgMethodTCPStore == <<"t", "c", "p", "s", "t", "o", "r", "e">>
kUniqueidXchgMethodDefault == kUniqueidXchgMethodAuto
getXCCLStoreKeyPrefix == "xccl_storekey_"

Unset == <<"<unset>">>
NullStore == "nullptr"
ExtStore == "supplied"
TcpStore == "registry"
StoreObjs == {ExtStore, TcpStore}
NullPtr == "nullptr"
NoVal == <<-1>>
NoKey == <<"<none>">>
NoId == <<>>
NullComm == 0

\* ----------------------------------------------------------------- strings
\* std::tolower on one character (the letters the selectors use)
tolower(c) ==
  CASE c = "A" -> "a" [] c = "C" -> "c" [] c = "E" -> "e" [] c = "G" -> "g"
    [] c = "L" -> "l" [] c = "O" -> "o" [] c = "P" -> "p" [] c = "R" -> "r"
    [] c = "S" -> "s" [] c = "T" -> "t" [] c = "U" -> "u"
    [] OTHER -> c

\* std::transform(begin, end, begin, tolower)
transform_tolower(s) == [i \in 1 .. Len(s) |-> tolower(s[i])]

\* the selector stored as the environment gave it
ResolveMethodRaw(env) ==
  IF env = Unset THEN kUniqueidXchgMethodDefault ELSE env

\* the selector the constructor stores for an environment value
ResolveMethod(env) ==
  transform_tolower(IF env = Unset THEN kUniqueidXchgMethodDefault ELSE env)

\* the selector is one of the two legal requests
MethodIsLegal(m) ==
  ~(m # kUniqueidXchgMethodAuto /\ m # kUniqueidXchgMethodTCPStore)

\* one rendezvous variable is enough
isTCPStoreEnabledEither(addr, port) == addr \/ port

\* isTCPStoreEnabled: both rendezvous variables are present
isTCPStoreEnabled(addr, port) == addr /\ port

\* ------------------------------------------------------------------- keys
\* prefix + std::to_string(counter_)
KeyString(n) == <<getXCCLStoreKeyPrefix, n>>

\* the counter left as it was
IncrementCounterNone(c) == c

\* counter_++
IncrementCounter(c) == c + 1

\* -------------------------------------------------------------- identities
\* the n-th identity the backend hands out (getUniqueId)
MkUniqueId(n) == [i \in 1 .. UniqueIdSize |-> n]

\* only the first byte of the identity copied
SerializeIdPartial(id) == [i \in 1 .. UniqueIdSize |-> IF i = 1 THEN id[1] ELSE 0]

\* std::vector<uint8_t>(&uniqueId, &uniqueId + sizeof(uniqueId))
SerializeId(id) == [i \in 1 .. UniqueIdSize |-> id[i]]

\* no size check
SizeMismatchNever(vec) == FALSE

\* vec.size() != sizeof(onecclUniqueId)
SizeMismatch(vec) == Len(vec) # UniqueIdSize

\* *(reinterpret_cast<const onecclUniqueId*>(vec.data()))
\* (bytes past the end of a short vector read as 0; the size check keeps the
\* code from ever getting there)
DeserializeId(vec) ==
  [i \in 1 .. UniqueIdSize |-> IF i <= Len(vec) THEN vec[i] ELSE 0]

\* the held store not looked at
HasStoreNever(s) == FALSE

\* store_ != nullptr
HasStore(s) == s # NullStore

\* every rank generates
IsGeneratorAny(rank) == TRUE

\* rank 0 generates and publishes, the others read
IsGenerator(rank) == rank = 0

\* ------------------------------------------------------------------ device
\* the rank taken as the device index
AssignDeviceRank(rank, dev, count) == IF dev = -1 THEN rank ELSE dev

\* device_ = c10::Device(kXPU, rank_ % device_count) when the index is unset
AssignDevice(rank, dev, count) == IF dev = -1 THEN rank % count ELSE dev

\* ------------------------------------------------------------------- hints
INT_MAX == 2147483647
INT_MIN == (0 - 2147483647) - 1
Undef == "undef"
Digits == <<"0", "1", "2", "3", "4", "5", "6", "7", "8", "9">>
IsDigit(c) == \E d \in 1 .. 10 : Digits[d] = c
DigitVal(c) == (CHOOSE d \in 1 .. 10 : Digits[d] = c) - 1
IsSpace(c) == c \in {" ", "\t", "\n"}

\* index of the first character at or after i that is not white space
RECURSIVE SkipSpace(_, _)
SkipSpace(s, i) ==
  IF i <= Len(s) /\ IsSpace(s[i]) THEN SkipSpace(s, i + 1) ELSE i

\* index just after the run of digits that starts at i
RECURSIVE DigitsEnd(_, _)
DigitsEnd(s, i) ==
  IF i <= Len(s) /\ IsDigit(s[i]) THEN DigitsEnd(s, i + 1) ELSE i

\* the digits s[i .. j-1] accumulated left to right as a negative number, as
\* strtol does; 1 once the magnitude no longer fits
RECURSIVE DigitsValue(_, _, _, _)
DigitsValue(s, i, j, acc) ==
  IF i >= j \/ acc = 1 THEN acc
  ELSE IF acc < (INT_MIN + DigitVal(s[i])) \div 10 + (IF (INT_MIN + DigitVal(s[i])) % 10 = 0 THEN 0 ELSE 1)
       THEN 1
       ELSE DigitsValue(s, i + 1, j, acc * 10 - DigitVal(s[i]))

\* std::stoi(val): white space, an optional sign, then the longest run of
\* digits; characters after the digits are ignored
stoi(s) ==
  LET b == SkipSpace(s, 1)
      signed == b <= Len(s) /\ s[b] \in {"+", "-"}
      neg == signed /\ s[b] = "-"
      d == IF signed THEN b + 1 ELSE b
      e == DigitsEnd(s, d)
      acc == DigitsValue(s, d, e, 0)
  IN IF e = d THEN [err |-> "invalid_argument", value |-> 0]
     ELSE IF acc = 1 \/ (~neg /\ acc < 0 - INT_MAX)
          THEN [err |-> "out_of_range", value |-> 0]
          ELSE [err |-> "none", value |-> IF neg THEN acc ELSE 0 - acc]

\* the configuration field an integer-valued hint key sets ("" if none)
IntFieldOf(key) ==
  CASE key = "blocking" -> "blocking"
    [] key = "cgaClusterSize" \/ key = "cga_cluster_size" -> "cgaClusterSize"
    [] key = "minCTAs" \/ key = "min_ctas" -> "minCTAs"
    [] key = "maxCTAs" \/ key = "max_ctas" -> "maxCTAs"
    [] key = "splitShare" \/ key = "split_share" -> "splitShare"
    [] key = "trafficClass" \/ key = "traffic_class" -> "trafficClass"
    [] key = "collnetEnable" \/ key = "collnet_enable" -> "collnetEnable"
    [] key = "CTAPolicy" \/ key = "cta_policy" -> "CTAPolicy"
    [] key = "shrinkShare" -> "shrinkShare"
    [] key = "nvlsCTAs" \/ key = "nvls_ctas" -> "nvlsCTAs"
    [] key = "nChannelsPerNetPeer" \/ key = "n_channels_per_net_peer"
         -> "nChannelsPerNetPeer"
    [] key = "nvlinkCentricSched" \/ key = "nvlink_centric_sched"
         -> "nvlinkCentricSched"
    [] OTHER -> ""

\* the configuration field a string-valued hint key sets ("" if none)
StrFieldOf(key) ==
  CASE key = "netName" -> "netName"
    [] key = "commName" -> "commName"
    [] OTHER -> ""

ConfigFields ==
  {"blocking", "cgaClusterSize", "minCTAs", "maxCTAs", "netName",
   "splitShare", "trafficClass", "commName", "collnetEnable", "CTAPolicy",
   "shrinkShare", "nvlsCTAs", "nChannelsPerNetPeer", "nvlinkCentricSched"}

\* XCCL_CONFIG_INITIALIZER with config.commName = strdup(name)
InitialConfig(name) ==
  [f \in ConfigFields |-> IF f = "commName" THEN name ELSE Undef]

\* a loop in which a key that no branch matches raises an error
HintStepStrict(st, key, val) ==
  IF IntFieldOf(key) # ""
  THEN LET r == stoi(val)
       IN IF r.err # "none"
          THEN [st EXCEPT !.err = r.err]
          ELSE [st EXCEPT !.config[IntFieldOf(key)] = r.value,
                          !.visited = @ + 1]
  ELSE IF StrFieldOf(key) # ""
       THEN [st EXCEPT !.config[StrFieldOf(key)] = val, !.visited = @ + 1]
       ELSE [st EXCEPT !.err = "invalid_argument"]

\* one iteration of the loop over options.hints
HintStep(st, key, val) ==
  IF IntFieldOf(key) # ""
  THEN LET r == stoi(val)
       IN IF r.err # "none"
          THEN [st EXCEPT !.err = r.err]
          ELSE [st EXCEPT !.config[IntFieldOf(key)] = r.value,
                          !.visited = @ + 1]
  ELSE IF StrFieldOf(key) # ""
       THEN [st EXCEPT !.config[StrFieldOf(key)] = val, !.visited = @ + 1]
       ELSE [st EXCEPT !.warnings = Append(@, key), !.visited = @ + 1]

\* the loop: entries in visiting order, abandoned at the first exception
RECURSIVE HintLoop(_, _, _)
HintLoop(st, entries, i) ==
  IF i > Len(entries) \/ st.err # "none" THEN st
  ELSE HintLoop(HintStep(st, entries[i][1], entries[i][2]), entries, i + 1)

populateXcclConfigFromHints(config, entries) ==
  HintLoop([config |-> config, warnings |-> <<>>, err |-> "none",
            visited |-> 0], entries, 1)

\* hint mappings offered to createXcclComm, each in one visiting order
HintChoices ==
  {<<>>,
   <<<<"blocking", <<"1">>>>, <<"bogus_key", <<"x">>>>>>,
   <<<<"min_ctas", <<"a", "b", "c">>>>>>}

\* ------------------------------------------------------------------- state
VARIABLES
  size,                     \* comm_size_: the number of ranks of the group
  counter_,                 \* per process: the static key counter
  life,                     \* per process: "none", "live" or "terminated"
  ctor,                     \* per process: arguments and outcome of the last construction
  store_,                   \* the coordinator's store reference
  created_internal_store_,
  uniqueid_xchg_method_,
  device_,                  \* device_.index()
  barrier_buffer_,
  pc,                       \* where the process is inside createXcclComm
  key,                      \* local of exchangeUniqueIdStore
  uniqueId,                 \* local of createXcclComm
  xccl_comm,                \* local of createXcclComm
  hints,                    \* options.hints of the call in progress
  log,                      \* what the current or last call did, in order
  result,                   \* how the last call ended
  store,                    \* contents of the two store objects
  writers,                  \* per store and key: the ranks that called set
  nextId,                   \* number of the next identity of the backend
  generated,                \* per key number: the identity rank 0 generated for it
  joined,                   \* per identity: ranks that called commInitRankConfig
  arrived,                  \* per communicator: ranks whose closing all-reduce is enqueued
  released,                 \* per communicator: ranks that reset store_ in cleanupTCPStore
  acquired,                 \* per process: stores taken from the registry
  dropped,                  \* per process: registry stores let go
  ops,                      \* number of operations started so far
  instance,                 \* per process: coordinators constructed so far
  issued,                   \* per process: the keys getXCCLStoreKey returned, in order
  tpc,                      \* per thread: where it is inside getXCCLStoreKey
  tkey,                     \* per thread: the local key
  tload,                    \* per thread: the value of counter_ it loaded
  tkeys,                    \* per thread: the keys its calls returned
  environ,                  \* per process: MASTER_ADDR / MASTER_PORT presence at the last call
  hmap,                     \* options.hints: the mapping handed to the translation
  hpass,                    \* the passes made over hmap: visiting order and outcome
  dtor,                     \* per process: outcome of the last run of the destructor
  buffer_device,            \* per process: the Level Zero device barrier_buffer_ is on
  machine,                  \* the drivers of the machine, each with its devices
  g_driver,                 \* XpuApi.cpp: the driver initLevelZero settled on
  g_devices,                \* XpuApi.cpp: the device handles kept
  g_device_count,           \* XpuApi.cpp: their number
  g_context,                \* XpuApi.cpp: the context created on g_driver
  initialized,              \* XpuApi.cpp: the static flag of initLevelZero
  zelast                    \* the last DefaultXpuApi call: operation, argument, status, value

coordVars ==
  <<life, ctor, store_, created_internal_store_, uniqueid_xchg_method_,
    device_, barrier_buffer_>>
callVars == <<pc, key, uniqueId, xccl_comm, hints, log, result>>
worldVars ==
  <<store, writers, nextId, generated, joined, arrived, released, ops>>
histVars == <<acquired, dropped, instance, issued>>
threadVars == <<tpc, tkey, tload, tkeys>>
hintVars == <<hmap, hpass>>
zeVars ==
  <<machine, g_driver, g_devices, g_device_count, g_context, initialized,
    zelast>>
vars ==
  <<size, counter_, coordVars, callVars, worldVars, histVars, threadVars,
    environ, hintVars, dtor, buffer_device, zeVars>>

Ranks == 0 .. (size - 1)
CommName == "comm"

\* no createXcclComm call made yet: the environment has not mattered
NoEnv == -1

\* nullptr as a driver or context handle; drivers are numbered from 1 in the
\* order zeInitDrivers lists them
NullHandle == 0

\* nullptr as a device handle; the handle of device j of driver i is <<i, j>>
NullDevice == <<0, 0>>

\* no device: barrier_buffer_ is null, or it came from a Device API whose
\* devices are not looked at
NoDev == <<-1, -1>>

\* no DefaultXpuApi call made yet
NoCall == [op |-> "none", arg |-> -1, status |-> "none", value |-> -1]

NoCtor == [store |-> NullStore, env |-> Unset, dev |-> -1, count |-> 0,
           err |-> "never"]
NoResult == [status |-> "none", what |-> "", detail |-> "", comm |-> NullComm]
Running == [status |-> "running", what |-> "", detail |-> "", comm |-> NullComm]
Returned(c) == [status |-> "ok", what |-> "", detail |-> "", comm |-> c]
Thrown(w, d) == [status |-> "error", what |-> w, detail |-> d, comm |-> NullComm]

\* what is the same in every initial state: no call made, nothing stored
InitCommon ==
  /\ size \in 1 .. MaxRanks
  /\ counter_ = [p \in Procs |-> 0]
  /\ created_internal_store_ = [p \in Procs |-> FALSE]
  /\ pc = [p \in Procs |-> "idle"]
  /\ key = [p \in Procs |-> NoKey]
  /\ uniqueId = [p \in Procs |-> NoId]
  /\ xccl_comm = [p \in Procs |-> NullComm]
  /\ hints = [p \in Procs |-> <<>>]
  /\ log = [p \in Procs |-> <<>>]
  /\ result = [p \in Procs |-> NoResult]
  /\ store = [s \in StoreObjs |-> [n \in KeyNums |-> NoVal]]
  /\ writers = [s \in StoreObjs |-> [n \in KeyNums |-> {}]]
  /\ nextId = 1
  /\ generated = [n \in KeyNums |-> NoId]
  /\ joined = [i \in IdNums |-> {}]
  /\ arrived = [i \in IdNums |-> {}]
  /\ released = [i \in IdNums |-> {}]
  /\ acquired = [p \in Procs |-> 0]
  /\ dropped = [p \in Procs |-> 0]
  /\ ops = 0
  /\ issued = [p \in Procs |-> <<>>]
  /\ tpc = [t \in Threads |-> "idle"]
  /\ tkey = [t \in Threads |-> NoKey]
  /\ tload = [t \in Threads |-> 0]
  /\ tkeys = [t \in Threads |-> <<>>]
  /\ environ = [p \in Procs |-> NoEnv]
  /\ dtor = [p \in Procs |-> "never"]
  /\ buffer_device = [p \in Procs |-> NoDev]
  /\ g_driver = NullHandle
  /\ g_devices = <<>>
  /\ g_device_count = 0
  /\ g_context = NullHandle
  /\ initialized = FALSE
  /\ zelast = NoCall

\* no hint mapping under translation, and a Device API other than
\* DefaultXpuApi: the machine behind it is not looked at
NoHints ==
  /\ hmap = {}
  /\ hpass = <<>>
  /\ machine = <<>>

\* no coordinator constructed yet
NoCoordinator ==
  /\ life = [p \in Procs |-> "none"]
  /\ ctor = [p \in Procs |-> NoCtor]
  /\ store_ = [p \in Procs |-> NullStore]
  /\ uniqueid_xchg_method_ = [p \in Procs |-> <<>>]
  /\ device_ = [p \in Procs |-> -1]
  /\ barrier_buffer_ = [p \in Procs |-> NullPtr]
  /\ instance = [p \in Procs |-> 0]

InitNone ==
  /\ InitCommon
  /\ NoCoordinator
  /\ NoHints

\* ------------------------------------------------------------ construction
EnvMethods ==
  {Unset, <<"A", "u", "t", "o">>, <<"T", "C", "P", "S", "t", "o", "r", "e">>,
   <<"G", "l", "o", "o">>}
DevArgs == {-1} \cup (0 .. (MaxDevices - 1))
XpuFailures == {"none", "getDeviceCount", "trap", "setDevice", "malloc"}

\* the arguments of a construction that ran to its end
CtorRecord(st, env, dev, cnt, err) ==
  [store |-> st, env |-> env, dev |-> dev, count |-> cnt, err |-> err]

\* rank_ % device_count with device_count = 0 is undefined: the division
\* traps, or it yields some index (0 and the rank itself stand for the values
\* a build may produce)
ModuloOutcomes(rank, dev, cnt) ==
  IF dev = -1 /\ cnt = 0 THEN {0, rank} ELSE {AssignDevice(rank, dev, cnt)}

\* TorchCommXCCLBootstrap(store, device, xccl_api, xpu_api, timeout): st is the
\* store argument, env the environment override, dev the device index, cnt
\* the count getDeviceCount reports, fail the Device API call that fails
\* ("trap": the process dies in the division by a device count of 0)
Constructor(p, st, env, dev, cnt, fail) ==
  /\ life[p] = "none"
  /\ ops < MaxOps
  /\ ops' = ops + 1
  /\ (dev # -1) => (cnt = 0 /\ fail # "getDeviceCount")
  /\ (fail = "trap") => (dev = -1 /\ cnt = 0)
  /\ IF fail = "none"
     THEN \E d \in ModuloOutcomes(p, dev, cnt) :
            /\ life' = [life EXCEPT ![p] = "live"]
            /\ store_' = [store_ EXCEPT ![p] = st]
            /\ created_internal_store_' =
                 [created_internal_store_ EXCEPT ![p] = FALSE]
            /\ uniqueid_xchg_method_' =
                 [uniqueid_xchg_method_ EXCEPT ![p] = ResolveMethod(env)]
            /\ device_' = [device_ EXCEPT ![p] = d]
            /\ barrier_buffer_' = [barrier_buffer_ EXCEPT ![p] = "buffer"]
            /\ ctor' = [ctor EXCEPT ![p] = CtorRecord(st, env, dev, cnt, "none")]
            /\ instance' = [instance EXCEPT ![p] = @ + 1]
     ELSE /\ life' = [life EXCEPT ![p] = IF fail = "trap" THEN "terminated" ELSE @]
          /\ ctor' = [ctor EXCEPT ![p] = CtorRecord(st, env, dev, 0, fail)]
          /\ UNCHANGED <<store_, created_internal_store_,
                         uniqueid_xchg_method_, device_, barrier_buffer_,
                         instance>>
  /\ log' = [log EXCEPT ![p] = <<>>]
  /\ result' = [result EXCEPT ![p] = NoResult]
  /\ environ' = [environ EXCEPT ![p] = NoEnv]
  /\ UNCHANGED <<size, counter_, pc, key, uniqueId, xccl_comm, hints, store,
                 writers, nextId, generated, joined, arrived, released,
                 acquired, dropped, issued, threadVars, hintVars, dtor>>

\* every rank of the group has constructed its coordinator: with or without
\* a supplied store, default selector, device derived from the rank
Init ==
  /\ InitCommon
  /\ NoHints
  /\ \E sts \in [Procs -> {NullStore, ExtStore}] :
       /\ life = [p \in Procs |-> IF p < size THEN "live" ELSE "none"]
       /\ ctor = [p \in Procs |->
                    IF p < size
                    THEN CtorRecord(sts[p], Unset, -1, MaxDevices, "none")
                    ELSE NoCtor]
       /\ store_ = [p \in Procs |-> IF p < size THEN sts[p] ELSE NullStore]
       /\ uniqueid_xchg_method_ =
            [p \in Procs |-> IF p < size THEN ResolveMethod(Unset) ELSE <<>>]
       /\ device_ =
            [p \in Procs |->
               IF p < size THEN AssignDevice(p, -1, MaxDevices) ELSE -1]
       /\ barrier_buffer_ =
            [p \in Procs |-> IF p < size THEN "buffer" ELSE NullPtr]
       /\ instance = [p \in Procs |-> IF p < size THEN 1 ELSE 0]

\* a destructor that never calls free
FreeNeededNever(b) == FALSE

\* if (barrier_buffer_ != nullptr) of the destructor
FreeNeeded(b) == b # NullPtr

\* ~TorchCommXCCLBootstrap(): frees the barrier buffer; a failing free throws
\* out of the destructor and ends the process where it stands.  Otherwise the
\* members, store_ among them, go away with the object.
Destructor(p, freeOk) ==
  /\ life[p] = "live"
  /\ pc[p] = "idle"
  /\ ops < MaxOps
  /\ ops' = ops + 1
  /\ (~FreeNeeded(barrier_buffer_[p])) => freeOk
  /\ IF freeOk
     THEN /\ life' = [life EXCEPT ![p] = "none"]
          /\ barrier_buffer_' = [barrier_buffer_ EXCEPT ![p] = NullPtr]
          /\ dropped' =
               [dropped EXCEPT ![p] = IF store_[p] = TcpStore THEN @ + 1 ELSE @]
          /\ store_' = [store_ EXCEPT ![p] = NullStore]
          /\ created_internal_store_' =
               [created_internal_store_ EXCEPT ![p] = FALSE]
          /\ uniqueid_xchg_method_' = [uniqueid_xchg_method_ EXCEPT ![p] = <<>>]
          /\ device_' = [device_ EXCEPT ![p] = -1]
          /\ buffer_device' = [buffer_device EXCEPT ![p] = NoDev]
          /\ dtor' = [dtor EXCEPT ![p] =
                        IF FreeNeeded(barrier_buffer_[p])
                        THEN "freed" ELSE "nothing to free"]
     ELSE /\ life' = [life EXCEPT ![p] = "terminated"]
          /\ dtor' = [dtor EXCEPT ![p] = "free failed"]
          /\ UNCHANGED <<barrier_buffer_, dropped, store_,
                         created_internal_store_, uniqueid_xchg_method_,
                         device_, buffer_device>>
  /\ UNCHANGED <<size, counter_, ctor, callVars, store, writers, nextId,
                 generated, joined, arrived, released, acquired, instance,
                 issued, threadVars, environ, hintVars, zeVars>>

\* ---------------------------------------------------------- createXcclComm
\* which of MASTER_ADDR (1) and MASTER_PORT (2) the call found set
EnvCode(addr, port) == (IF addr THEN 1 ELSE 0) + (IF port THEN 2 ELSE 0)

\* the call ends: by return or by an exception that leaves createXcclComm
Finish(p, res, lg) ==
  /\ pc' = [pc EXCEPT ![p] = "idle"]
  /\ result' = [result EXCEPT ![p] = res]
  /\ log' = [log EXCEPT ![p] = lg]
  /\ key' = [key EXCEPT ![p] = NoKey]
  /\ uniqueId' = [uniqueId EXCEPT ![p] = NoId]
  /\ xccl_comm' = [xccl_comm EXCEPT ![p] = NullComm]
  /\ hints' = [hints EXCEPT ![p] = <<>>]

\* commInitRankConfig called before the hints are translated
AfterExchangeInitFirst(p, k, id, h, lg) ==
  LET r == populateXcclConfigFromHints(InitialConfig(CommName), h)
  IN IF r.err # "none"
     THEN /\ Finish(p, Thrown(r.err, "stoi"), lg \o <<<<"hints", 0>>>>)
          /\ UNCHANGED joined
     ELSE /\ pc' = [pc EXCEPT ![p] = "commInit"]
          /\ key' = [key EXCEPT ![p] = k]
          /\ uniqueId' = [uniqueId EXCEPT ![p] = id]
          /\ hints' = [hints EXCEPT ![p] = <<>>]
          /\ log' = [log EXCEPT ![p] =
                       lg \o <<<<"commInit", id[1]>>, <<"hints", 0>>>>]
          /\ result' = [result EXCEPT ![p] = Running]
          /\ joined' = [i \in IdNums |->
                          IF i = id[1] THEN joined[i] \cup {p} ELSE joined[i]]
          /\ UNCHANGED xccl_comm

\* createXcclComm from the point where the identity is in hand: the hints are
\* translated and commInitRankConfig is called
AfterExchange(p, k, id, h, lg) ==
  LET r == populateXcclConfigFromHints(InitialConfig(CommName), h)
  IN IF r.err # "none"
     THEN /\ Finish(p, Thrown(r.err, "stoi"), lg \o <<<<"hints", 0>>>>)
          /\ UNCHANGED joined
     ELSE /\ pc' = [pc EXCEPT ![p] = "commInit"]
          /\ key' = [key EXCEPT ![p] = k]
          /\ uniqueId' = [uniqueId EXCEPT ![p] = id]
          /\ hints' = [hints EXCEPT ![p] = <<>>]
          /\ log' = [log EXCEPT ![p] =
                       lg \o <<<<"hints", 0>>, <<"commInit", id[1]>>>>]
          /\ result' = [result EXCEPT ![p] = Running]
          /\ joined' = [i \in IdNums |->
                          IF i = id[1] THEN joined[i] \cup {p} ELSE joined[i]]
          /\ UNCHANGED xccl_comm

\* createXcclComm(name, options) up to its first wait: exchangeUniqueId picks
\* the store, getXCCLStoreKey makes the key, rank 0 generates and publishes
\* the identity and goes on to commInitRankConfig, the other ranks go to get.
\* h is options.hints, addr and port tell whether MASTER_ADDR and MASTER_PORT
\* are set, uidOk whether getUniqueId succeeds.
createXcclComm(p, h, addr, port, uidOk) ==
  /\ life[p] = "live"
  /\ pc[p] = "idle"
  /\ ops < MaxOps
  /\ ops' = ops + 1
  /\ (~IsGenerator(p)) => uidOk
  /\ environ' = [environ EXCEPT ![p] = EnvCode(addr, port)]
  /\ IF ~HasStore(store_[p]) /\ ~MethodIsLegal(uniqueid_xchg_method_[p])
     THEN /\ Finish(p, Thrown("Invalid unique ID exchange method ",
                              uniqueid_xchg_method_[p]),
                    <<<<"getenv", EnvCode(addr, port)>>>>)
          /\ UNCHANGED <<counter_, store_, created_internal_store_, store,
                         writers, nextId, generated, joined, arrived, released,
                         acquired, dropped, issued>>
     ELSE IF ~HasStore(store_[p]) /\ ~isTCPStoreEnabled(addr, port)
     THEN /\ Finish(p, Thrown("No way to exchange unique ID", ""),
                    <<<<"getenv", EnvCode(addr, port)>>>>)
          /\ UNCHANGED <<counter_, store_, created_internal_store_, store,
                         writers, nextId, generated, joined, arrived, released,
                         acquired, dropped, issued>>
     ELSE LET fromRegistry == ~HasStore(store_[p])
              st == IF fromRegistry THEN TcpStore ELSE store_[p]
              k == counter_[p]
              lg0 == IF fromRegistry
                     THEN <<<<"getenv", EnvCode(addr, port)>>, <<"getStore", 0>>>>
                     ELSE <<>>
              lg1 == lg0 \o <<<<"getXCCLStoreKey", KeyString(k)>>>>
          IN /\ store_' = [store_ EXCEPT ![p] = st]
             /\ created_internal_store_' =
                  [created_internal_store_ EXCEPT ![p] = @ \/ fromRegistry]
             /\ acquired' =
                  [acquired EXCEPT ![p] = IF fromRegistry THEN @ + 1 ELSE @]
             /\ dropped' =
                  [dropped EXCEPT ![p] =
                     IF fromRegistry /\ store_[p] = TcpStore THEN @ + 1 ELSE @]
             /\ counter_' = [counter_ EXCEPT ![p] = IncrementCounter(@)]
             /\ issued' =
                  [issued EXCEPT ![p] =
                     Append(@, [key |-> KeyString(k), by |-> instance[p]])]
             /\ UNCHANGED <<arrived, released>>
             /\ IF IsGenerator(p)
                THEN IF ~uidOk
                     THEN /\ Finish(p, Thrown("Failed to get XCCL unique ID: ",
                                              "getErrorString"),
                                    lg1 \o <<<<"getUniqueId", 0>>>>)
                          /\ UNCHANGED <<store, writers, nextId, generated,
                                         joined>>
                     ELSE LET id == MkUniqueId(nextId)
                              kn == KeyString(k)[2]
                          IN /\ nextId' = nextId + 1
                             /\ store' = [store EXCEPT ![st][kn] = SerializeId(id)]
                             /\ writers' = [writers EXCEPT ![st][kn] = @ \cup {p}]
                             /\ generated' = [generated EXCEPT ![kn] = id]
                             /\ AfterExchange(p, KeyString(k), id, h,
                                  lg1 \o <<<<"getUniqueId", id[1]>>,
                                           <<"set", KeyString(k)>>>>)
                ELSE /\ pc' = [pc EXCEPT ![p] = "get"]
                     /\ key' = [key EXCEPT ![p] = KeyString(k)]
                     /\ hints' = [hints EXCEPT ![p] = h]
                     /\ log' = [log EXCEPT ![p] = lg1]
                     /\ result' = [result EXCEPT ![p] = Running]
                     /\ UNCHANGED <<uniqueId, xccl_comm, store, writers, nextId,
                                    generated, joined>>
  /\ UNCHANGED <<size, life, ctor, uniqueid_xchg_method_, device_,
                 barrier_buffer_, instance, threadVars, hintVars, dtor,
                 buffer_device, zeVars>>

\* what store_->get can hand back for a stored value: the value, or a value
\* of another length when the entry is corrupt
GetResults(v) == {v, SubSeq(v, 1, Len(v) - 1), Append(v, 0)}

\* store_->get(key) returns vec on a rank other than 0; the size check, the
\* copy into uniqueId, and createXcclComm up to commInitRankConfig
StoreGetReturns(p, vec) ==
  /\ pc[p] = "get"
  /\ store_[p] # NullStore
  /\ store[store_[p]][key[p][2]] # NoVal
  /\ vec \in GetResults(store[store_[p]][key[p][2]])
  /\ LET lg == Append(log[p], <<"get", Len(vec)>>)
     IN IF SizeMismatch(vec)
        THEN /\ Finish(p, Thrown("Invalid XCCL unique ID size", ""), lg)
             /\ UNCHANGED joined
        ELSE AfterExchange(p, key[p], DeserializeId(vec), hints[p], lg)
  /\ UNCHANGED <<size, counter_, coordVars, store, writers, nextId, generated,
                 arrived, released, ops, histVars, threadVars, environ,
                 hintVars, dtor, buffer_device, zeVars>>

\* store_->get(key) gives up after the timeout: the store's exception leaves
\* createXcclComm
StoreGetTimesOut(p) ==
  /\ pc[p] = "get"
  /\ Finish(p, Thrown("store get timed out", ""), Append(log[p], <<"get", -1>>))
  /\ UNCHANGED <<size, counter_, coordVars, worldVars, histVars, threadVars,
                 environ, hintVars, dtor, buffer_device, zeVars>>

\* the reference kept
ResetStoreKept(s) == s

\* store_.reset() of cleanupTCPStore
ResetStore(s) == NullStore

\* the closing step run whoever made the store
CleanupAlways(created) == TRUE

\* if (created_internal_store_) of cleanupTCPStore
CleanupNeeded(created) == created

\* the backend completes a communicator only when every rank of the group
\* has called commInitRankConfig with its identity
InitComplete(id) == id[1] \in IdNums /\ joined[id[1]] = Ranks

\* the closing all-reduce completes once every rank has enqueued it
BarrierComplete(c) == c \in IdNums /\ arrived[c] = Ranks

\* a non-success status alone counts as failure
InitFailedStatusOnly(outcome) == outcome = "error"

\* xcclErr != xcclSuccess || xccl_comm == nullptr
InitFailed(outcome) == outcome # "ok"

\* what the log keeps of the way commInitRankConfig returned
InitCode(outcome) ==
  CASE outcome = "ok" -> 1 [] outcome = "error" -> 0 [] OTHER -> -1

\* a failed all-reduce thrown like any other failure
AllReduceThrowsOnFailure(arOk) == ~arOk

\* if (result != onecclSuccess) TC_LOG(ERROR): the status is logged, never
\* thrown
AllReduceThrows(arOk) == FALSE

\* commInitRankConfig returns: outcome "ok", "error" (a status other than
\* success) or "null" (success, no communicator); then cleanupTCPStore up to
\* streamSynchronize, arOk telling whether allReduce reports success
commInitRankConfigReturns(p, outcome, arOk) ==
  /\ pc[p] = "commInit"
  /\ (outcome = "ok") => InitComplete(uniqueId[p])
  /\ (outcome # "ok" \/ ~CleanupNeeded(created_internal_store_[p])) => arOk
  /\ LET c == IF outcome = "ok" THEN uniqueId[p][1] ELSE NullComm
         lg == Append(log[p], <<"commInitReturns", InitCode(outcome)>>)
         lgAr == lg \o <<<<"reset", 0>>, <<"allReduce", IF arOk THEN 1 ELSE 0>>>>
     IN IF InitFailed(outcome)
        THEN /\ Finish(p, Thrown("Failed to initialize XCCL communicator: ",
                                 "getErrorString"), lg)
             /\ UNCHANGED <<store_, arrived, released, dropped>>
        ELSE IF ~CleanupNeeded(created_internal_store_[p])
        THEN /\ Finish(p, Returned(c), Append(lg, <<"return", c>>))
             /\ UNCHANGED <<store_, arrived, released, dropped>>
        ELSE /\ store_' = [store_ EXCEPT ![p] = ResetStore(@)]
             /\ dropped' = [dropped EXCEPT ![p] =
                              IF store_[p] = TcpStore /\ ResetStore(store_[p]) = NullStore
                              THEN @ + 1 ELSE @]
             /\ released' = [i \in IdNums |->
                               IF i = c /\ ResetStore(store_[p]) = NullStore
                               THEN released[i] \cup {p} ELSE released[i]]
             /\ arrived' = [i \in IdNums |->
                              IF i = c /\ arOk
                              THEN arrived[i] \cup {p} ELSE arrived[i]]
             /\ IF AllReduceThrows(arOk)
                THEN Finish(p, Thrown("XCCL AllReduce failed: ",
                                      "getErrorString"), lgAr)
                ELSE /\ pc' = [pc EXCEPT ![p] = "sync"]
                     /\ xccl_comm' = [xccl_comm EXCEPT ![p] = c]
                     /\ log' = [log EXCEPT ![p] = lgAr]
                     /\ UNCHANGED <<key, uniqueId, hints, result>>
  /\ UNCHANGED <<size, counter_, life, ctor, created_internal_store_,
                 uniqueid_xchg_method_, device_, barrier_buffer_, store,
                 writers, nextId, generated, joined, acquired, ops, instance,
                 issued, threadVars, environ, hintVars, dtor, buffer_device,
                 zeVars>>

\* streamSynchronize(stream) returns: success needs the enqueued all-reduce
\* to be complete; a failure is thrown by XPU_CHECK
streamSynchronizeReturns(p, ok) ==
  /\ pc[p] = "sync"
  /\ ok => (p \in arrived[xccl_comm[p]] => BarrierComplete(xccl_comm[p]))
  /\ IF ok
     THEN Finish(p, Returned(xccl_comm[p]),
                 log[p] \o <<<<"streamSynchronize", 1>>,
                             <<"return", xccl_comm[p]>>>>)
     ELSE Finish(p, Thrown("Stream synchronization failed", "getErrorString"),
                 Append(log[p], <<"streamSynchronize", 0>>))
  /\ UNCHANGED <<size, counter_, coordVars, worldVars, histVars, threadVars,
                 environ, hintVars, dtor, buffer_device, zeVars>>

\* ------------------------------------- getXCCLStoreKey from several threads
\* Coordinators of process 0 call getXCCLStoreKey from different threads.
\* counter_ is a plain static int: the read that builds the key, and the load
\* and the store of counter_++, are separate accesses that interleave.
notThreadVars ==
  <<size, coordVars, callVars, worldVars, histVars, environ, hintVars, dtor,
    buffer_device, zeVars>>

\* std::string key = getXCCLStoreKeyPrefix() + std::to_string(counter_)
ThreadReadsKey(t) ==
  /\ tpc[t] = "idle"
  /\ Len(tkeys[t]) < MaxThreadCalls
  /\ tkey' = [tkey EXCEPT ![t] = KeyString(counter_[0])]
  /\ tpc' = [tpc EXCEPT ![t] = "keyed"]
  /\ UNCHANGED <<counter_, tload, tkeys, notThreadVars>>

\* counter_++, the load
ThreadLoadsCounter(t) ==
  /\ tpc[t] = "keyed"
  /\ tload' = [tload EXCEPT ![t] = counter_[0]]
  /\ tpc' = [tpc EXCEPT ![t] = "loaded"]
  /\ UNCHANGED <<counter_, tkey, tkeys, notThreadVars>>

\* counter_++, the store; return key
ThreadStoresCounter(t) ==
  /\ tpc[t] = "loaded"
  /\ counter_' = [counter_ EXCEPT ![0] = IncrementCounter(tload[t])]
  /\ tkeys' = [tkeys EXCEPT ![t] = Append(@, tkey[t])]
  /\ tpc' = [tpc EXCEPT ![t] = "idle"]
  /\ UNCHANGED <<tkey, tload, notThreadVars>>

ReadsKey == \E t \in Threads : ThreadReadsKey(t)
LoadsCounter == \E t \in Threads : ThreadLoadsCounter(t)
StoresCounter == \E t \in Threads : ThreadStoresCounter(t)

NextThreads ==
  \/ ReadsKey
  \/ LoadsCounter
  \/ StoresCounter

SpecThreads == InitNone /\ [][NextThreads]_vars

\* ------------------------------------------------- XpuApi.cpp: Level Zero
\* The machine is a list of drivers, each a list of devices, a device being
\* a discrete or an integrated GPU; it has at most MaxDevices devices.
DeviceKinds == {"dgpu", "igpu"}
DeviceLists == UNION {[1 .. n -> DeviceKinds] : n \in 0 .. MaxDevices}
RECURSIVE TotalDevices(_, _)
TotalDevices(m, i) ==
  IF i > Len(m) THEN 0 ELSE Len(m[i]) + TotalDevices(m, i + 1)
Machines ==
  {m \in UNION {[1 .. n -> DeviceLists] : n \in 0 .. MaxDrivers} :
     TotalDevices(m, 1) <= MaxDevices}

ZE_RESULT_SUCCESS == "ZE_RESULT_SUCCESS"
ZE_RESULT_ERROR_UNINITIALIZED == "ZE_RESULT_ERROR_UNINITIALIZED"
ZE_RESULT_ERROR_INVALID_ARGUMENT == "ZE_RESULT_ERROR_INVALID_ARGUMENT"
\* any other status a Level Zero call hands back
ZE_RESULT_ERROR_UNKNOWN == "ZE_RESULT_ERROR_UNKNOWN"

\* the handles zeDeviceGet writes for driver i
Handles(i) == [j \in 1 .. Len(machine[i]) |-> <<i, j>>]

\* the handles in all that are integrated GPUs
IntegratedHandles(all) ==
  {all[j] : j \in {k \in 1 .. Len(all) :
                     all[k] # NullDevice
                     /\ machine[all[k][1]][all[k][2]] = "igpu"}}

\* all_devices.resize(n): elements kept, null handles appended
Resize(all, n) ==
  [j \in 1 .. n |-> IF j <= Len(all) THEN all[j] ELSE NullDevice]

\* the loop over the drivers: get[i] tells how the zeDeviceGet calls on
\* driver i go ("none": the count query fails or reports no device; "fail":
\* the query for the handles fails; "ok")
RECURSIVE DriverLoop(_, _, _, _)
DriverLoop(i, drv, all, get) ==
  IF i > Len(machine) THEN [g_driver |-> drv, all_devices |-> all]
  ELSE IF get[i] = "none" \/ Len(machine[i]) = 0
       THEN DriverLoop(i + 1, drv, all, get)
       ELSE IF get[i] = "ok"
            THEN [g_driver |-> i, all_devices |-> Handles(i)]
            ELSE DriverLoop(i + 1, i, Resize(all, Len(machine[i])), get)

\* the lambda is_igpu: zeDeviceGetProperties fails on the handles in failed
\* and on a null handle, and then the device is taken as not integrated
is_igpu(h, failed) ==
  h \notin failed /\ h # NullDevice /\ machine[h[1]][h[2]] = "igpu"

\* std::remove_if(all, is_igpu) and erase: the elements is_igpu rejects, in
\* their order
RECURSIVE RemoveIf(_, _, _)
RemoveIf(all, failed, j) ==
  IF j > Len(all) THEN <<>>
  ELSE IF is_igpu(all[j], failed)
       THEN RemoveIf(all, failed, j + 1)
       ELSE <<all[j]>> \o RemoveIf(all, failed, j + 1)

\* the globals as they are
Globals(status) ==
  [status |-> status, g_driver |-> g_driver, g_devices |-> g_devices,
   g_device_count |-> g_device_count, g_context |-> g_context,
   initialized |-> initialized]

\* initialized = (result == ZE_RESULT_SUCCESS)
InitializedAfter(ok) == ok

\* initLevelZero() from the filter on: found is what the loop over the
\* drivers left, the property query fails on failAll during all_of and on
\* failRemove during remove_if, context tells whether zeContextCreate
\* succeeds
FilterAndCreate(found, failAll, failRemove, context) ==
  LET all == found.all_devices
      kept == RemoveIf(all, failRemove, 1)
  IN IF Len(all) = 0 \/ \A j \in 1 .. Len(all) : is_igpu(all[j], failAll)
     THEN [Globals(ZE_RESULT_ERROR_UNINITIALIZED)
             EXCEPT !.g_driver = found.g_driver]
     ELSE [status |-> IF context THEN ZE_RESULT_SUCCESS
                      ELSE ZE_RESULT_ERROR_UNKNOWN,
           g_driver |-> found.g_driver,
           g_devices |-> kept,
           g_device_count |-> Len(kept),
           g_context |-> IF context THEN found.g_driver ELSE g_context,
           initialized |-> InitializedAfter(context)]

\* initLevelZero(): the status it returns and the globals it leaves, for
\* every way the Level Zero calls it makes can go: the first zeInitDrivers
\* fails or counts no driver, or the second fails; or zeDeviceGet goes as
\* get says on each driver, the
\* property query fails on some integrated devices, differently in all_of
\* and in remove_if, and zeContextCreate succeeds or fails
initLevelZero ==
  IF initialized THEN {Globals(ZE_RESULT_SUCCESS)}
  ELSE {Globals(ZE_RESULT_ERROR_UNINITIALIZED),
        Globals(ZE_RESULT_ERROR_UNKNOWN)} \cup
       UNION {LET found == DriverLoop(1, g_driver, <<>>, get)
              IN {FilterAndCreate(found, fa, fr, context) :
                    fa \in SUBSET IntegratedHandles(found.all_devices),
                    fr \in SUBSET IntegratedHandles(found.all_devices),
                    context \in BOOLEAN} :
                get \in [1 .. Len(machine) -> {"ok", "none", "fail"}]}

\* the globals after the run
ApplyInit(r) ==
  /\ g_driver' = r.g_driver
  /\ g_devices' = r.g_devices
  /\ g_device_count' = r.g_device_count
  /\ g_context' = r.g_context
  /\ initialized' = r.initialized

\* the record of a DefaultXpuApi call
Call(op, arg, status, value) ==
  [op |-> op, arg |-> arg, status |-> status, value |-> value]

\* device < 0 || device >= (int)g_device_count
InvalidDevice(device, count) == device < 0 \/ device >= count

\* the status of setDevice once initLevelZero has returned r
SetDeviceStatus(device, r) ==
  IF r.status # ZE_RESULT_SUCCESS THEN r.status
  ELSE IF InvalidDevice(device, r.g_device_count)
       THEN ZE_RESULT_ERROR_INVALID_ARGUMENT
       ELSE ZE_RESULT_SUCCESS

\* the device zeMemAllocDevice is given: g_devices[0]; with no device kept
\* the read is past the end of the array and yields whatever lies there
MallocDevices(r) ==
  IF r.g_device_count >= 1 THEN {r.g_devices[1]}
  ELSE {NullDevice} \cup {<<i, 1>> : i \in 1 .. Len(machine)}

notZeVars ==
  <<size, counter_, coordVars, callVars, worldVars, histVars, threadVars,
    environ, hintVars, dtor, buffer_device, machine>>

\* DefaultXpuApi::getDeviceCount(&count)
getDeviceCount(r) ==
  /\ ApplyInit(r)
  /\ zelast' = Call("getDeviceCount", -1, r.status,
                    IF r.status = ZE_RESULT_SUCCESS
                    THEN r.g_device_count ELSE -1)
  /\ UNCHANGED notZeVars

\* DefaultXpuApi::setDevice(device)
setDevice(device, r) ==
  /\ ApplyInit(r)
  /\ zelast' = Call("setDevice", device, SetDeviceStatus(device, r),
                    r.g_device_count)
  /\ UNCHANGED notZeVars

\* DefaultXpuApi::malloc(&devPtr, sizeof(float)); allocOk tells whether
\* zeMemAllocDevice succeeds
malloc(r, allocOk) ==
  /\ ApplyInit(r)
  /\ zelast' = Call("malloc", -1,
                    IF r.status # ZE_RESULT_SUCCESS THEN r.status
                    ELSE IF allocOk THEN ZE_RESULT_SUCCESS
                         ELSE ZE_RESULT_ERROR_UNKNOWN,
                    r.g_device_count)
  /\ UNCHANGED notZeVars

\* the Device API call of the constructor that fails, or "none", when the
\* Device API is DefaultXpuApi, the first call of the constructor ran
\* initLevelZero with outcome r, and zeMemAllocDevice does as allocOk says
DefaultFailures(dev, r, allocOk) ==
  IF r.status # ZE_RESULT_SUCCESS
  THEN {IF dev = -1 THEN "getDeviceCount" ELSE "setDevice"}
  ELSE IF dev = -1 /\ r.g_device_count = 0 THEN {"trap", "setDevice"}
  ELSE IF InvalidDevice(dev, r.g_device_count) /\ dev # -1 THEN {"setDevice"}
  ELSE IF allocOk THEN {"none"} ELSE {"malloc"}

\* the constructor on DefaultXpuApi, without a store: its three Device API
\* calls go through initLevelZero, which does its work in the first of them
ConstructorDefault(p, dev, r, allocOk, fail) ==
  /\ fail \in DefaultFailures(dev, r, allocOk)
  /\ Constructor(p, NullStore, Unset, dev,
                 IF dev = -1 /\ r.status = ZE_RESULT_SUCCESS
                 THEN r.g_device_count ELSE 0,
                 fail)
  /\ ApplyInit(r)
  /\ UNCHANGED machine
  /\ IF fail = "none"
     THEN /\ \E b \in MallocDevices(r) :
               buffer_device' = [buffer_device EXCEPT ![p] = b]
          /\ zelast' = Call("malloc", -1, ZE_RESULT_SUCCESS, r.g_device_count)
     ELSE /\ UNCHANGED buffer_device
          /\ zelast' =
               CASE fail = "getDeviceCount" ->
                      Call("getDeviceCount", -1, r.status, -1)
                 [] fail = "trap" ->
                      Call("getDeviceCount", -1, ZE_RESULT_SUCCESS, 0)
                 [] fail = "setDevice" ->
                      Call("setDevice", IF dev = -1 THEN 0 ELSE dev,
                           SetDeviceStatus(IF dev = -1 THEN 0 ELSE dev, r),
                           r.g_device_count)
                 [] fail = "malloc" ->
                      Call("malloc", -1, ZE_RESULT_ERROR_UNKNOWN,
                           r.g_device_count)

\* ----------------------------------------------------------- specification
\* the arguments a specification offers to the constructor, the Device API
\* being any implementation of XpuApi; a construction that fails is offered
\* without a store, without a selector, for the device arguments -1 and 0
\* and for a device count of at most 1
Construct(Stores, Envs, Devs, Counts, Fails) ==
  \E p \in {q \in Ranks : life[q] = "none"} :
    \E st \in Stores, env \in Envs, dev \in Devs, cnt \in Counts, fail \in Fails :
      /\ (fail # "none") =>
           (st = NullStore /\ env = Unset /\ cnt <= 1 /\ dev \in {-1, 0})
      /\ Constructor(p, st, env, dev, cnt, fail)
      /\ UNCHANGED <<buffer_device, zeVars>>
Destroy(Frees) == \E p \in Ranks, freeOk \in Frees : Destructor(p, freeOk)
\* AnyEnv: a call that holds a store, and so never reads the environment, is
\* offered under every environment; otherwise under the full one only
Create(Hints, AnyEnv) ==
  \E p \in {q \in Ranks : life[q] = "live" /\ pc[q] = "idle"} :
    \E h \in Hints, addr \in BOOLEAN, port \in BOOLEAN, uidOk \in BOOLEAN :
      /\ (HasStore(store_[p]) /\ ~AnyEnv) => (addr /\ port)
      /\ createXcclComm(p, h, addr, port, uidOk)
GetReturns ==
  \E p \in Ranks :
    \E vec \in (IF pc[p] = "get" /\ store_[p] # NullStore
                THEN GetResults(store[store_[p]][key[p][2]]) ELSE {}) :
      StoreGetReturns(p, vec)
GetTimesOut == \E p \in Ranks : StoreGetTimesOut(p)
InitReturns ==
  \E p \in Ranks, outcome \in {"ok", "error", "null"}, arOk \in BOOLEAN :
    commInitRankConfigReturns(p, outcome, arOk)
SyncReturns == \E p \in Ranks, ok \in BOOLEAN : streamSynchronizeReturns(p, ok)

\* the rendezvous of a group whose coordinators are constructed
Next ==
  \/ Create(HintChoices, FALSE)
  \/ GetReturns
  \/ GetTimesOut
  \/ InitReturns
  \/ SyncReturns

Spec == Init /\ [][Next]_vars

\* the coordinators come and go: construction and destruction included
NextLife ==
  \/ Construct({NullStore, ExtStore}, {Unset}, {-1}, {MaxDevices}, {"none"})
  \/ Destroy(BOOLEAN)
  \/ Next

SpecLife == Init /\ [][NextLife]_vars

\* coordinators constructed with every kind of device argument and with
\* every Device API failure
NextDev ==
  \/ Construct({NullStore}, {Unset}, DevArgs, 0 .. MaxDevices, XpuFailures)
  \/ Destroy({TRUE})
  \/ Next

SpecDev == Init /\ [][NextDev]_vars

\* coordinators constructed under every value of the selector override,
\* calls made under every environment and without hints
NextSel ==
  \/ Construct({NullStore, ExtStore}, EnvMethods, {-1}, {MaxDevices}, {"none"})
  \/ Destroy({TRUE})
  \/ Create({<<>>}, TRUE)
  \/ GetReturns
  \/ GetTimesOut
  \/ InitReturns
  \/ SyncReturns

SpecSel == Init /\ [][NextSel]_vars

\* ----------------------------------------------- the translation of hints
\* populateXcclConfigFromHints on its own: a mapping of hint keys to values,
\* visited in whatever order the container yields its entries.

\* every key the loop compares against, the snake_case form of the three
\* names it knows in one form only, and a key it does not know
HintKeys ==
  {"blocking", "cgaClusterSize", "cga_cluster_size", "minCTAs", "min_ctas",
   "maxCTAs", "max_ctas", "netName", "net_name", "splitShare", "split_share",
   "trafficClass", "traffic_class", "commName", "comm_name", "collnetEnable",
   "collnet_enable", "CTAPolicy", "cta_policy", "shrinkShare", "shrink_share",
   "nvlsCTAs", "nvls_ctas", "nChannelsPerNetPeer", "n_channels_per_net_peer",
   "nvlinkCentricSched", "nvlink_centric_sched", "bogus_key"}

\* the keys of the mappings of more than one entry
HintKeysTogether == {"blocking", "minCTAs", "min_ctas", "commName", "bogus_key"}

\* values: two numbers, no number, a number with a tail, nothing
HintValues == {<<"1">>, <<"2">>, <<"a", "b", "c">>, <<"1", "x">>, <<>>}

\* a mapping holds one value per key
IsMapping(m) == \A e1, e2 \in m : e1[1] = e2[1] => e1 = e2

\* the mappings of exactly n entries over the given keys
RECURSIVE MappingsOf(_, _)
MappingsOf(keys, n) ==
  IF n = 0 THEN {{}}
  ELSE {m \cup {<<k, v>>} :
          m \in {x \in MappingsOf(keys, n - 1) : TRUE},
          k \in keys, v \in HintValues}

HintMappings ==
  {m \in MappingsOf(HintKeys, 1) \cup
         UNION {MappingsOf(HintKeysTogether, n) : n \in 0 .. MaxHints} :
     IsMapping(m)}

\* the orders in which the entries of m can be visited
Orders(m) ==
  {o \in [1 .. Cardinality(m) -> m] :
     \A i, j \in 1 .. Cardinality(m) : i # j => o[i] # o[j]}

\* populateXcclConfigFromHints(config, options, name) over hmap, the entries
\* coming in the order o
Translate(o) ==
  /\ Len(hpass) < MaxPasses
  /\ o \in Orders(hmap)
  /\ hpass' = Append(hpass,
                     [order |-> o,
                      out |-> populateXcclConfigFromHints(
                                InitialConfig(CommName), o)])
  /\ UNCHANGED <<size, counter_, coordVars, callVars, worldVars, histVars,
                 threadVars, environ, hmap, dtor, buffer_device, zeVars>>

TranslateHints == \E o \in Orders(hmap) : Translate(o)

InitHints ==
  /\ InitCommon
  /\ NoCoordinator
  /\ hmap \in HintMappings
  /\ hpass = <<>>
  /\ machine = <<>>

NextHints == TranslateHints

SpecHints == InitHints /\ [][NextHints]_vars

\* -------------------------------------------- coordinators on DefaultXpuApi
GetsDeviceCount == \E r \in initLevelZero : getDeviceCount(r)
SetsDevice == \E device \in -1 .. MaxDevices, r \in initLevelZero : setDevice(device, r)
Mallocs == \E r \in initLevelZero, allocOk \in BOOLEAN : malloc(r, allocOk)
\* the coordinators are constructed without a device index, which the
\* constructor then derives from the rank
ConstructsDefault ==
  \E p \in {q \in Ranks : life[q] = "none"} :
    \E r \in initLevelZero, allocOk \in BOOLEAN, fail \in XpuFailures :
      ConstructorDefault(p, -1, r, allocOk, fail)

InitZe ==
  /\ InitCommon
  /\ size = MaxRanks
  /\ NoCoordinator
  /\ hmap = {}
  /\ hpass = <<>>
  /\ machine \in Machines

NextZe ==
  \/ GetsDeviceCount
  \/ SetsDevice
  \/ Mallocs
  \/ ConstructsDefault

SpecZe == InitZe /\ [][NextZe]_vars

\* ------------------------------------------------------------------ claims
HasEvent(lg, name) == \E i \in 1 .. Len(lg) : lg[i][1] = name
CountEvent(lg, name) == Cardinality({i \in 1 .. Len(lg) : lg[i][1] = name})
Exchanged(p) == pc[p] \in {"commInit", "sync"}

\* C1: identity convergence.  A rank that has completed the identifier
\* exchange of a round (the round of its key) holds exactly the identity that
\* rank 0 generated with getUniqueId for that key, so two ranks that completed
\* the same round hold the same identity.
IdentityConvergence ==
  /\ \A p \in Ranks :
       Exchanged(p) =>
         /\ generated[key[p][2]] # NoId
         /\ uniqueId[p] = generated[key[p][2]]
  /\ \A p, q \in Ranks :
       (Exchanged(p) /\ Exchanged(q) /\ key[p] = key[q]) =>
         uniqueId[p] = uniqueId[q]

\* a rank other than 0 holds, in the second round, the identity rank 0
\* generated for that round, while an identity of the first round exists
IdentityConvergenceWitness ==
  \E p \in Ranks :
    /\ p # 0
    /\ Exchanged(p)
    /\ key[p] = KeyString(1)
    /\ generated[0] # NoId
    /\ uniqueId[p] = generated[1]
    /\ generated[1] # generated[0]

\* C2 as stated: a rank whose coordinator created its store returns from
\* createXcclComm only after every rank has dropped its reference to it.
BarrierSafetyAsStated ==
  \A p \in Ranks :
    (result[p].status = "ok" /\ HasEvent(log[p], "reset")) =>
      \A q \in Ranks : q \in released[result[p].comm]

\* C2, amended: a rank drops its store reference before it issues the closing
\* all-reduce; a rank whose all-reduce was enqueued with success returns only
\* after every rank of the group has dropped its reference and issued the
\* all-reduce.
BarrierSafety ==
  \A p \in Ranks :
    /\ \A i \in 1 .. Len(log[p]) :
         log[p][i][1] = "allReduce" =>
           /\ \E j \in 1 .. (i - 1) : log[p][j][1] = "reset"
           /\ \E c \in IdNums : p \in released[c]
    /\ pc[p] = "sync" => (store_[p] = NullStore /\ p \in released[xccl_comm[p]])
    /\ (/\ result[p].status = "ok"
        /\ \E i \in 1 .. Len(log[p]) :
             log[p][i][1] = "allReduce" /\ log[p][i][2] = 1) =>
         \A q \in Ranks :
           q \in released[result[p].comm] /\ q \in arrived[result[p].comm]

\* in a group of two, a rank has returned through a closing barrier
BarrierSafetyWitness ==
  \E p \in Ranks :
    /\ size >= 2
    /\ result[p].status = "ok"
    /\ \E i \in 1 .. Len(log[p]) : log[p][i][1] = "allReduce" /\ log[p][i][2] = 1
    /\ HasEvent(log[p], "streamSynchronize")

\* C3: key uniqueness.  Within a process the keys getXCCLStoreKey returns are
\* the prefix followed by a counter value that starts at 0 and is strictly
\* greater at every later call, whichever coordinator makes the call and
\* however the exchange ends; the counter stays above every value handed out.
KeyUniqueness ==
  \A p \in Procs :
    /\ \A i \in 1 .. Len(issued[p]) :
         /\ issued[p][i].key[1] = "xccl_storekey_"
         /\ issued[p][i].key[2] < counter_[p]
         /\ \A j \in 1 .. (i - 1) : issued[p][j].key[2] < issued[p][i].key[2]
    /\ Len(issued[p]) >= 1 => issued[p][1].key[2] = 0
    /\ Len(issued[p]) = 0 => counter_[p] = 0

\* two coordinators of one process have each made an exchange, the first of
\* which has been destroyed
KeyUniquenessWitness ==
  \E p \in Ranks :
    /\ Len(issued[p]) = 2
    /\ issued[p][1].by # issued[p][2].by
    /\ issued[p][1].key # issued[p][2].key

\* C4: atomic key counter.  When the threads are all out of getXCCLStoreKey,
\* the keys their calls returned are pairwise different and the counter has
\* advanced by one per call.
RECURSIVE KeysReturned(_)
KeysReturned(t) == IF t = 0 THEN 0 ELSE Len(tkeys[t]) + KeysReturned(t - 1)

AtomicKeyCounter ==
  (\A t \in Threads : tpc[t] = "idle") =>
    /\ \A t, u \in Threads :
         \A i \in 1 .. Len(tkeys[t]), j \in 1 .. Len(tkeys[u]) :
           (t # u \/ i # j) => tkeys[t][i] # tkeys[u][j]
    /\ counter_[0] = KeysReturned(NumThreads)

\* C5: ownership isolation.  A coordinator constructed with a supplied store
\* keeps that reference and never marks it internally created, never asks
\* the registry for a store, never resets store_ and never runs the closing
\* all-reduce and stream synchronization, in any createXcclComm call,
\* successful or failing; its destruction releases nothing either.
OwnershipIsolation ==
  [][\A p \in Procs :
       /\ (life'[p] = "live" /\ ctor'[p].store = ExtStore) =>
            /\ store_'[p] = ExtStore
            /\ ~created_internal_store_'[p]
            /\ pc'[p] # "sync"
            /\ ~HasEvent(log'[p], "getStore")
            /\ ~HasEvent(log'[p], "reset")
            /\ ~HasEvent(log'[p], "allReduce")
            /\ ~HasEvent(log'[p], "streamSynchronize")
       /\ (life[p] = "live" /\ ctor[p].store = ExtStore) =>
            /\ acquired'[p] = acquired[p]
            /\ dropped'[p] = dropped[p]
            /\ \A c \in IdNums :
                 /\ (p \in released'[c]) = (p \in released[c])
                 /\ (p \in arrived'[c]) = (p \in arrived[c])]_vars

\* a coordinator with a supplied store has made a successful call and has
\* then been destroyed
OwnershipIsolationWitness ==
  \E p \in Ranks :
    /\ life[p] = "none"
    /\ ctor[p].store = ExtStore
    /\ ctor[p].err = "none"
    /\ result[p].status = "ok"

\* C6: internal store released exactly once.  The registry is asked for a
\* store only by a coordinator that holds none, a registry store is let go
\* only by the coordinator that holds it, one at a time, and at every moment
\* the stores taken minus the stores let go is the one store held, if any:
\* whether the call that took the store returns or fails.
InternalStoreReleasedOnce ==
  [][\A p \in Procs :
       /\ acquired'[p] \in {acquired[p], acquired[p] + 1}
       /\ acquired'[p] > acquired[p] =>
            (store_[p] = NullStore /\ store_'[p] = TcpStore
             /\ created_internal_store_'[p])
       /\ dropped'[p] \in {dropped[p], dropped[p] + 1}
       /\ dropped'[p] > dropped[p] =>
            (store_[p] = TcpStore /\ store_'[p] = NullStore)
       /\ acquired'[p] - dropped'[p] = (IF store_'[p] = TcpStore THEN 1 ELSE 0)]_vars

\* the store taken in a call that failed was used again by the next call of
\* the same coordinator and let go once, when that call succeeded
InternalStoreReleasedOnceWitness ==
  \E p \in Ranks :
    /\ acquired[p] = 1
    /\ dropped[p] = 1
    /\ Len(issued[p]) = 2
    /\ issued[p][1].by = issued[p][2].by
    /\ result[p].status = "ok"
    /\ ~HasEvent(log[p], "getStore")

\* C7: single writer and single generator.  In every call getUniqueId is
\* called at most once and only by rank 0, which calls it exactly once when
\* it has made a key; set is performed by rank 0 only, after getUniqueId;
\* the other ranks only get; no key of any store has a writer other than
\* rank 0.
SingleWriter ==
  /\ \A s \in StoreObjs, n \in KeyNums : writers[s][n] \subseteq {0}
  /\ \A p \in Ranks :
       /\ CountEvent(log[p], "getUniqueId") <= 1
       /\ CountEvent(log[p], "set") <= 1
       /\ HasEvent(log[p], "set") => HasEvent(log[p], "getUniqueId")
       /\ p # 0 =>
            (~HasEvent(log[p], "getUniqueId") /\ ~HasEvent(log[p], "set"))
       /\ p = 0 =>
            /\ ~HasEvent(log[p], "get")
            /\ HasEvent(log[p], "getXCCLStoreKey") =>
                 CountEvent(log[p], "getUniqueId") = 1

\* rank 0 has written a key and rank 1 has read an identity of full size
SingleWriterWitness ==
  /\ size >= 2
  /\ \E s \in StoreObjs : writers[s][0] = {0}
  /\ \E i \in 1 .. Len(log[1]) :
       log[1][i][1] = "get" /\ log[1][i][2] = UniqueIdSize

\* C8: deterministic device assignment.  A live coordinator constructed with
\* the index unset (-1) is assigned rank mod deviceCount, one constructed
\* with an index keeps it, and this stays so over every later call.
DeterministicDevice ==
  \A p \in Procs :
    life[p] = "live" =>
      /\ (ctor[p].dev = -1 /\ ctor[p].count >= 1) =>
           device_[p] = p % ctor[p].count
      /\ ctor[p].dev # -1 => device_[p] = ctor[p].dev

\* a rank at least as large as the device count got a device below its rank
\* and has made a call since
DeterministicDeviceWitness ==
  \E p \in Ranks :
    /\ p >= 1
    /\ life[p] = "live"
    /\ ctor[p].dev = -1
    /\ ctor[p].count = 1
    /\ device_[p] = 0
    /\ result[p].status \in {"ok", "error"}

\* C9: size validation on the other ranks.  When get hands back a value whose
\* length is not the identity size, the call fails with the size error at
\* once: the get is the last thing the call did, it is its only get, and the
\* call made neither getUniqueId nor commInitRankConfig.
SizeValidation ==
  \A p \in Ranks :
    \A i \in 1 .. Len(log[p]) :
      (log[p][i][1] = "get" /\ log[p][i][2] >= 0
       /\ log[p][i][2] # UniqueIdSize) =>
        /\ p # 0
        /\ pc[p] = "idle"
        /\ result[p].status = "error"
        /\ result[p].what = "Invalid XCCL unique ID size"
        /\ i = Len(log[p])
        /\ CountEvent(log[p], "get") = 1
        /\ ~HasEvent(log[p], "getUniqueId")
        /\ ~HasEvent(log[p], "commInit")

\* a rank other than 0 read a value one byte short and failed
SizeValidationWitness ==
  \E p \in Ranks :
    /\ p # 0
    /\ result[p].what = "Invalid XCCL unique ID size"
    /\ log[p][Len(log[p])][1] = "get"
    /\ log[p][Len(log[p])][2] = UniqueIdSize - 1

\* C10: invalid selector.  For a coordinator constructed without a store, a
\* call fails with the invalid-exchange-method error exactly when the
\* selector, lower-cased, is neither "auto" nor "tcpstore", whatever
\* MASTER_ADDR and MASTER_PORT are; a selector that differs from the two only
\* in letter case is accepted.
InvalidSelector ==
  \A p \in Procs :
    (life[p] = "live" /\ ctor[p].store = NullStore
     /\ result[p].status # "none") =>
      LET sel == transform_tolower(IF ctor[p].env = Unset
                                   THEN <<"a", "u", "t", "o">>
                                   ELSE ctor[p].env)
          legal == sel \in {<<"a", "u", "t", "o">>,
                            <<"t", "c", "p", "s", "t", "o", "r", "e">>}
      IN /\ legal => result[p].what # "Invalid unique ID exchange method "
         /\ ~legal =>
              /\ result[p].status = "error"
              /\ result[p].what = "Invalid unique ID exchange method "
              /\ result[p].detail = sel
              /\ pc[p] = "idle"
              /\ Len(log[p]) = 1

\* a call under a selector that is not legal failed with both rendezvous
\* variables set
InvalidSelectorWitness ==
  \E p \in Ranks :
    /\ life[p] = "live"
    /\ ctor[p].store = NullStore
    /\ ctor[p].env = <<"G", "l", "o", "o">>
    /\ result[p].what = "Invalid unique ID exchange method "
    /\ log[p][1][1] = "getenv"
    /\ log[p][1][2] = 3

\* a call under a selector in mixed case got past the selection
MixedCaseSelectorWitness ==
  \E p \in Ranks :
    /\ life[p] = "live"
    /\ ctor[p].store = NullStore
    /\ ctor[p].env = <<"T", "C", "P", "S", "t", "o", "r", "e">>
    /\ HasEvent(log[p], "getStore")

\* the call of p, made or under way, began with the selection of a store:
\* store_ was null when exchangeUniqueId looked at it
SelectionRan(p) == Len(log[p]) >= 1 /\ log[p][1][1] = "getenv"

\* a createXcclComm call was made on the coordinator p now has
CallMade(p) == life[p] = "live" /\ environ[p] # NoEnv

\* C11 as stated: with no store supplied at construction and a legal selector
\* a call fails with "No way to exchange unique ID" exactly when MASTER_ADDR
\* or MASTER_PORT is absent, and with both present it takes a store from the
\* registry and goes on to the exchange.
NoTransportAsStated ==
  \A p \in Ranks :
    (CallMade(p) /\ ctor[p].store = NullStore
     /\ MethodIsLegal(uniqueid_xchg_method_[p])) =>
      /\ (result[p].what = "No way to exchange unique ID") <=> (environ[p] # 3)
      /\ environ[p] = 3 =>
           (HasEvent(log[p], "getStore") /\ created_internal_store_[p]
            /\ HasEvent(log[p], "getXCCLStoreKey"))

\* C11, amended: the same for a call that the coordinator begins holding no
\* store; a coordinator constructed without a store that begins a call
\* holding one holds a store it took from the registry in an earlier call.
NoTransport ==
  \A p \in Ranks :
    (CallMade(p) /\ ctor[p].store = NullStore
     /\ MethodIsLegal(uniqueid_xchg_method_[p])) =>
      IF SelectionRan(p)
      THEN /\ log[p][1][2] = environ[p]
           /\ (result[p].what = "No way to exchange unique ID") <=>
                (environ[p] # 3)
           /\ environ[p] # 3 =>
                (Len(log[p]) = 1 /\ pc[p] = "idle"
                 /\ result[p].status = "error")
           /\ environ[p] = 3 =>
                /\ Len(log[p]) >= 3
                /\ log[p][2][1] = "getStore"
                /\ log[p][3][1] = "getXCCLStoreKey"
                /\ created_internal_store_[p]
                /\ acquired[p] >= 1
      ELSE /\ created_internal_store_[p]
           /\ acquired[p] >= 1
           /\ ~HasEvent(log[p], "getStore")
           /\ result[p].what # "No way to exchange unique ID"

\* one call failed for want of MASTER_PORT alone, another took a store from
\* the registry and made its key
NoTransportWitness ==
  /\ size >= 2
  /\ \E p \in Ranks :
       /\ CallMade(p) /\ ctor[p].store = NullStore /\ SelectionRan(p)
       /\ environ[p] = 1
       /\ result[p].what = "No way to exchange unique ID"
  /\ \E p \in Ranks :
       /\ CallMade(p) /\ ctor[p].store = NullStore /\ SelectionRan(p)
       /\ environ[p] = 3
       /\ HasEvent(log[p], "getXCCLStoreKey")
       /\ store_[p] = TcpStore

\* C12: a supplied store short-circuits the selection.  Whatever the selector
\* and whatever the environment, a call of a coordinator constructed with a
\* store never reads the environment, never asks the registry, never fails
\* with one of the two configuration errors, and makes its key and performs
\* its set or get on the supplied store.
SuppliedStoreShortCircuits ==
  \A p \in Ranks :
    (CallMade(p) /\ ctor[p].store = ExtStore) =>
      /\ store_[p] = ExtStore
      /\ result[p].what # "Invalid unique ID exchange method "
      /\ result[p].what # "No way to exchange unique ID"
      /\ ~HasEvent(log[p], "getenv")
      /\ ~HasEvent(log[p], "getStore")
      /\ Len(log[p]) >= 1 /\ log[p][1][1] = "getXCCLStoreKey"
      /\ HasEvent(log[p], "set") => p \in writers[ExtStore][log[p][1][2][2]]
      /\ \A i \in 1 .. Len(log[p]) :
           (log[p][i][1] = "get" /\ log[p][i][2] >= 0) =>
             store[ExtStore][log[p][1][2][2]] # NoVal

\* under an illegal selector and with neither variable set, a coordinator
\* with a supplied store has brought a call to its end with a communicator
SuppliedStoreShortCircuitsWitness ==
  \E p \in Ranks :
    /\ CallMade(p)
    /\ ctor[p].store = ExtStore
    /\ ctor[p].env = <<"G", "l", "o", "o">>
    /\ environ[p] = 0
    /\ result[p].status = "ok"

\* the communicator the call of p was joining when commInitRankConfig
\* returned with success
CommJoined(p) ==
  LET i == CHOOSE j \in 1 .. Len(log[p]) : log[p][j][1] = "commInit"
  IN log[p][i][2]

\* C13: an all-reduce failure is not escalated.  After a closing all-reduce
\* that returned a status other than success the call goes on to the stream
\* synchronization as after one that succeeded, no error of the call names
\* the all-reduce, and when the synchronization returns the call returns the
\* handle commInitRankConfig produced.
AllReduceFailureNotEscalated ==
  \A p \in Ranks :
    \A i \in 1 .. Len(log[p]) :
      log[p][i] = <<"allReduce", 0>> =>
        /\ log[p][i - 1][1] = "reset"
        /\ log[p][i - 2] = <<"commInitReturns", 1>>
        /\ result[p].what # "XCCL AllReduce failed: "
        /\ IF pc[p] = "sync"
           THEN i = Len(log[p]) /\ result[p].status = "running"
           ELSE /\ pc[p] = "idle"
                /\ Len(log[p]) > i
                /\ log[p][i + 1][1] = "streamSynchronize"
                /\ log[p][i + 1][2] = 1 =>
                     /\ result[p] = Returned(CommJoined(p))
                     /\ result[p].comm # NullComm
                     /\ log[p][Len(log[p])] = <<"return", CommJoined(p)>>

\* in a group of two a rank whose all-reduce failed has returned its handle
AllReduceFailureNotEscalatedWitness ==
  \E p \in Ranks :
    /\ size >= 2
    /\ \E i \in 1 .. Len(log[p]) : log[p][i] = <<"allReduce", 0>>
    /\ HasEvent(log[p], "streamSynchronize")
    /\ result[p].status = "ok"
    /\ result[p].comm # NullComm

\* C14: the closing synchronization never fails an otherwise successful
\* creation.  A call that has ended returned a handle exactly when
\* commInitRankConfig returned success with a communicator, and that handle
\* is the one it produced: whatever the all-reduce and the stream
\* synchronization reported.
ClosingSyncNeverFails ==
  \A p \in Ranks :
    (CallMade(p) /\ pc[p] = "idle") =>
      /\ (\E i \in 1 .. Len(log[p]) : log[p][i] = <<"commInitReturns", 1>>) =>
           (result[p].status = "ok" /\ result[p].comm = CommJoined(p))
      /\ (~\E i \in 1 .. Len(log[p]) : log[p][i] = <<"commInitReturns", 1>>) =>
           result[p].status = "error"

\* C19: a backend construction failure is fatal and not retried.  When
\* commInitRankConfig returns a status other than success, or success without
\* a communicator, that is the last thing the call does: it fails with the
\* backend's error string, has called commInitRankConfig once, returns no
\* handle, and neither resets the store nor issues the all-reduce nor
\* synchronizes; an internally created store is still held.
BackendFailureFatal ==
  \A p \in Ranks :
    \A i \in 1 .. Len(log[p]) :
      (log[p][i][1] = "commInitReturns" /\ log[p][i][2] # 1) =>
        /\ i = Len(log[p])
        /\ pc[p] = "idle"
        /\ result[p] = Thrown("Failed to initialize XCCL communicator: ",
                              "getErrorString")
        /\ result[p].comm = NullComm
        /\ CountEvent(log[p], "commInit") = 1
        /\ CountEvent(log[p], "commInitReturns") = 1
        /\ ~HasEvent(log[p], "reset")
        /\ ~HasEvent(log[p], "allReduce")
        /\ ~HasEvent(log[p], "streamSynchronize")
        /\ ~HasEvent(log[p], "return")
        /\ created_internal_store_[p] => store_[p] = TcpStore

\* commInitRankConfig reported success without a communicator to a
\* coordinator that created its store, and the call failed holding the store
BackendFailureFatalWitness ==
  \E p \in Ranks :
    /\ log[p] # <<>>
    /\ log[p][Len(log[p])] = <<"commInitReturns", -1>>
    /\ created_internal_store_[p]
    /\ store_[p] = TcpStore
    /\ result[p].what = "Failed to initialize XCCL communicator: "

\* a string of one-character strings as one string
RECURSIVE Text(_)
Text(cs) == IF cs = <<>> THEN "" ELSE cs[1] \o Text(Tail(cs))

\* the pieces the what() of the exception of a failed call is made of
Message(res) ==
  IF res.what = "Invalid unique ID exchange method "
  THEN <<res.what, Text(res.detail)>>
  ELSE IF res.detail = "" THEN <<res.what>> ELSE <<res.what, res.detail>>

Carries(msg, piece) == \E i \in 1 .. Len(msg) : msg[i] = piece

\* C20: diagnosable failures.  The error of a call that failed for an invalid
\* selector, for want of a transport, in getUniqueId, on the size of the
\* value read or in commInitRankConfig carries the rank and the communicator
\* name, and the backend's error text when a backend status is at hand.
DiagnosableFailures ==
  \A p \in Ranks :
    (result[p].status = "error"
     /\ result[p].what \in {"Invalid unique ID exchange method ",
                            "No way to exchange unique ID",
                            "Failed to get XCCL unique ID: ",
                            "Invalid XCCL unique ID size",
                            "Failed to initialize XCCL communicator: "}) =>
      /\ Carries(Message(result[p]), ToString(p))
      /\ Carries(Message(result[p]), CommName)
      /\ result[p].what \in {"Failed to get XCCL unique ID: ",
                             "Failed to initialize XCCL communicator: "} =>
           Carries(Message(result[p]), "getErrorString")


\* the entry's key is matched by a branch of the else-if chain
Recognized(e) == IntFieldOf(e[1]) # "" \/ StrFieldOf(e[1]) # ""

\* the outcome of one pass over the entries o, from the initial configuration
Pass(o) == populateXcclConfigFromHints(InitialConfig(CommName), o)

\* C15: in every pass over a hint mapping, an entry whose key no branch
\* matches raises no error, adds exactly one warning naming that key, leaves
\* every configuration field as it was before the entry, and the pass ends
\* with the configuration and the error of the pass over the other entries.
UnknownHintsTolerated ==
  \A n \in 1 .. Len(hpass) :
    LET o == hpass[n].order
    IN /\ \A i \in 1 .. Len(o) :
            LET before == Pass(SubSeq(o, 1, i - 1))
                after == Pass(SubSeq(o, 1, i))
            IN (~Recognized(o[i]) /\ before.err = "none") =>
                 /\ after.err = "none"
                 /\ after.config = before.config
                 /\ after.warnings = Append(before.warnings, o[i][1])
       /\ hpass[n].out.err = Pass(SelectSeq(o, Recognized)).err
       /\ hpass[n].out.config = Pass(SelectSeq(o, Recognized)).config

\* {"blocking": "1", "bogus_key": ...} was translated: blocking is 1, one
\* warning, no error
UnknownHintsToleratedWitness ==
  \E n \in 1 .. Len(hpass) :
    /\ Len(hpass[n].order) = 2
    /\ hpass[n].order[1] = <<"blocking", <<"1">>>>
    /\ hpass[n].order[2][1] = "bogus_key"
    /\ hpass[n].out.err = "none"
    /\ hpass[n].out.config["blocking"] = 1
    /\ hpass[n].out.warnings = <<"bogus_key">>


\* std::stoi consumed the whole of s: after optional white space and sign,
\* a run of at least one digit that ends where s ends
EntirelyInteger(s) ==
  LET b == SkipSpace(s, 1)
      d == IF b <= Len(s) /\ s[b] \in {"+", "-"} THEN b + 1 ELSE b
  IN DigitsEnd(s, d) > d /\ DigitsEnd(s, d) = Len(s) + 1

\* C16: in every pass, an entry under an integer-valued key whose value is
\* not entirely an integer literal ends the pass with a parse error, and the
\* field of that key is left as it was initialised.
MalformedIntegerFails ==
  \A n \in 1 .. Len(hpass) :
    \A i \in 1 .. Len(hpass[n].order) :
      LET k == hpass[n].order[i][1]
          v == hpass[n].order[i][2]
      IN (IntFieldOf(k) # "" /\ ~EntirelyInteger(v)) =>
           /\ hpass[n].out.err # "none"
           /\ (Len(hpass[n].order) = 1 =>
                 hpass[n].out.config = InitialConfig(CommName))

\* the snake_case spelling of the name of a configuration field
SnakeOf(f) ==
  CASE f = "blocking" -> "blocking"
    [] f = "cgaClusterSize" -> "cga_cluster_size"
    [] f = "minCTAs" -> "min_ctas"
    [] f = "maxCTAs" -> "max_ctas"
    [] f = "netName" -> "net_name"
    [] f = "splitShare" -> "split_share"
    [] f = "trafficClass" -> "traffic_class"
    [] f = "commName" -> "comm_name"
    [] f = "collnetEnable" -> "collnet_enable"
    [] f = "CTAPolicy" -> "cta_policy"
    [] f = "shrinkShare" -> "shrink_share"
    [] f = "nvlsCTAs" -> "nvls_ctas"
    [] f = "nChannelsPerNetPeer" -> "n_channels_per_net_peer"
    [] f = "nvlinkCentricSched" -> "nvlink_centric_sched"

\* C17: a mapping of one entry whose key is the camelCase or the snake_case
\* spelling of a configuration field is translated without a warning, to the
\* configuration and the error that the camelCase key with that value gives.
BothSpellingsRecognized ==
  \A n \in 1 .. Len(hpass) :
    \A f \in ConfigFields :
      LET o == hpass[n].order
      IN (Len(o) = 1 /\ o[1][1] \in {f, SnakeOf(f)}) =>
           /\ hpass[n].out.warnings = <<>>
           /\ hpass[n].out.err = Pass(<<<<f, o[1][2]>>>>).err
           /\ hpass[n].out.config = Pass(<<<<f, o[1][2]>>>>).config

\* C18: a pass that raises no error has visited every entry, and two passes
\* over the same mapping that raise no error produce the same configuration,
\* whatever the orders in which they visited the entries.
OrderIndependentTranslation ==
  /\ \A n \in 1 .. Len(hpass) :
       hpass[n].out.err = "none" =>
         hpass[n].out.visited = Len(hpass[n].order)
  /\ \A n1, n2 \in 1 .. Len(hpass) :
       (hpass[n1].out.err = "none" /\ hpass[n2].out.err = "none") =>
         hpass[n1].out.config = hpass[n2].out.config


\* the place of each call createXcclComm makes in the text of the function
\* and of the functions it calls
StepRank(name) ==
  CASE name = "getenv" -> 1
    [] name = "getStore" -> 2
    [] name = "getXCCLStoreKey" -> 3
    [] name = "getUniqueId" -> 4
    [] name = "set" -> 5
    [] name = "get" -> 5
    [] name = "hints" -> 6
    [] name = "commInit" -> 7
    [] name = "commInitReturns" -> 8
    [] name = "reset" -> 9
    [] name = "allReduce" -> 10
    [] name = "streamSynchronize" -> 11
    [] name = "return" -> 12

\* the argument logged with the first event of that name
EventArg(lg, name) == lg[CHOOSE i \in 1 .. Len(lg) : lg[i][1] = name][2]

\* the events of lg before the first event of that name
Before(lg, name) ==
  SubSeq(lg, 1, (CHOOSE i \in 1 .. Len(lg) : lg[i][1] = name) - 1)

\* C21: the steps of every call happen in the order store selection, key
\* generation, getUniqueId and set (rank 0) or get (other ranks), hint
\* translation, commInitRankConfig, closing synchronization, return.  So
\* commInitRankConfig is called only by a rank that holds an identity, the
\* closing all-reduce is issued only after commInitRankConfig returned a
\* communicator, and a hint parse error comes after the key was consumed
\* and, on rank 0, after the identity was published.
StepOrder ==
  \A p \in Ranks :
    /\ \A i, j \in 1 .. Len(log[p]) :
         i < j => StepRank(log[p][i][1]) < StepRank(log[p][j][1])
    /\ HasEvent(log[p], "commInit") =>
         /\ HasEvent(Before(log[p], "commInit"), "getXCCLStoreKey")
         /\ HasEvent(Before(log[p], "commInit"), "hints")
         /\ EventArg(log[p], "commInit") \in IdNums
         /\ IF IsGenerator(p)
            THEN /\ HasEvent(Before(log[p], "commInit"), "set")
                 /\ EventArg(log[p], "getUniqueId")
                      = EventArg(log[p], "commInit")
            ELSE /\ HasEvent(Before(log[p], "commInit"), "get")
                 /\ EventArg(log[p], "get") = UniqueIdSize
    /\ HasEvent(log[p], "allReduce") =>
         /\ HasEvent(Before(log[p], "allReduce"), "commInitReturns")
         /\ EventArg(log[p], "commInitReturns") = 1
    /\ HasEvent(log[p], "return") =>
         /\ HasEvent(Before(log[p], "return"), "commInitReturns")
         /\ HasEvent(log[p], "reset") => HasEvent(log[p], "streamSynchronize")
    /\ (result[p].status = "error" /\ result[p].detail = "stoi") =>
         /\ HasEvent(Before(log[p], "hints"), "getXCCLStoreKey")
         /\ ~HasEvent(log[p], "commInit")
         /\ counter_[p] > 0
         /\ IsGenerator(p) =>
              /\ HasEvent(Before(log[p], "hints"), "set")
              /\ store_[p] # NullStore
              /\ store[store_[p]][EventArg(log[p], "set")[2]] # NoVal

\* a rank took its store from the registry, went through every step of the
\* call and returned the communicator
StepOrderWitness ==
  \E p \in Ranks :
    /\ result[p].status = "ok"
    /\ HasEvent(log[p], "getStore")
    /\ HasEvent(log[p], "hints")
    /\ HasEvent(log[p], "allReduce")
    /\ HasEvent(log[p], "streamSynchronize")
    /\ HasEvent(log[p], "return")


\* what one step does to the barrier buffer of process p
BufferStep(p) ==
  /\ life[p] = "live" => barrier_buffer_[p] # NullPtr
  /\ life'[p] = "live" => barrier_buffer_'[p] # NullPtr
  /\ barrier_buffer_'[p] # barrier_buffer_[p] =>
       \/ /\ life[p] = "none"
          /\ life'[p] = "live"
          /\ barrier_buffer_[p] = NullPtr
          /\ instance'[p] = instance[p] + 1
       \/ /\ life[p] = "live"
          /\ life'[p] = "none"
          /\ barrier_buffer_'[p] = NullPtr
          /\ dtor'[p] = "freed"
  /\ (~HasEvent(log[p], "allReduce") /\ HasEvent(log'[p], "allReduce")) =>
       /\ life[p] = "live"
       /\ barrier_buffer_[p] # NullPtr
       /\ barrier_buffer_'[p] = barrier_buffer_[p]
  /\ (life[p] = "live" /\ life'[p] # "live") =>
       /\ barrier_buffer_[p] # NullPtr
       /\ dtor'[p] \in {"freed", "free failed"}
       /\ dtor'[p] = "freed" =>
            (life'[p] = "none" /\ barrier_buffer_'[p] = NullPtr)
       /\ dtor'[p] = "free failed" =>
            (life'[p] = "terminated" /\ barrier_buffer_'[p] = barrier_buffer_[p])

\* C22: the barrier buffer is allocated by the construction and by nothing
\* else, a live coordinator holds it through every createXcclComm call, so
\* each closing all-reduce is issued with the buffer held; only the
\* destructor lets it go, by one free of a buffer that is not null; a free
\* that fails ends the process.
BufferLifecycle == [][\A p \in Procs : BufferStep(p)]_vars

\* a coordinator ran a closing all-reduce and was then destroyed, its buffer
\* freed
BufferLifecycleWitness ==
  \E p \in Ranks :
    /\ life[p] = "none"
    /\ dtor[p] = "freed"
    /\ barrier_buffer_[p] = NullPtr
    /\ HasEvent(log[p], "allReduce")
    /\ result[p].status = "ok"


\* the call ended with one of the two errors exchangeUniqueId raises itself
ConfigurationError(res) ==
  /\ res.status = "error"
  /\ res.what \in {"Invalid unique ID exchange method ",
                   "No way to exchange unique ID"}

\* the processes whose call state or key counter the step touched
Callers ==
  {p \in Procs : \/ pc'[p] # pc[p]
                 \/ result'[p] # result[p]
                 \/ log'[p] # log[p]
                 \/ environ'[p] # environ[p]
                 \/ counter_'[p] # counter_[p]}

\* a createXcclComm call was started and ended within this step, and it
\* ended with a configuration error
ConfigurationErrorStep ==
  /\ ops' = ops + 1
  /\ life' = life
  /\ \A p \in Callers :
       /\ pc[p] = "idle"
       /\ pc'[p] = "idle"
       /\ ConfigurationError(result'[p])

\* what the failed call left behind: nothing changed but the record of the
\* call, store_ is null, and the call made no call but getenv
NoEffect ==
  /\ UNCHANGED <<counter_, coordVars, store, writers, nextId, generated,
                 joined, arrived, released, histVars, key, uniqueId,
                 xccl_comm>>
  /\ \A p \in Callers :
       /\ store_'[p] = NullStore
       /\ Len(log'[p]) = 1
       /\ log'[p][1][1] = "getenv"

\* C23 as stated: a createXcclComm call that fails with the invalid-selector
\* or the no-transport error changes neither the key counter, nor the stores
\* taken from the registry, nor the contents of any store, nor the state of
\* the backend, and leaves store_ null and created_internal_store_ false.
ConfigurationErrorsNoEffectAsStated ==
  [][ConfigurationErrorStep =>
       /\ NoEffect
       /\ \A p \in Callers : ~created_internal_store_'[p]]_vars

\* C23, amended: the same, created_internal_store_ keeping the value it had,
\* which is true once an earlier call of the coordinator took a store from
\* the registry.
ConfigurationErrorsNoEffect == [][ConfigurationErrorStep => NoEffect]_vars

\* a coordinator that had completed one call, its key counter at 1, made a
\* call without MASTER_ADDR or MASTER_PORT
ConfigurationErrorsNoEffectWitness ==
  \E p \in Ranks :
    /\ result[p].what = "No way to exchange unique ID"
    /\ counter_[p] = 1
    /\ acquired[p] = 1
    /\ store_[p] = NullStore
    /\ created_internal_store_[p]


\* the calls of process p that reached the identifier exchange
RoundsOf(p) == Len(issued[p])

\* C24: whatever the outcomes of the calls made so far, the key counter of a
\* process is the number of its calls that reached the identifier exchange;
\* so ranks that made as many such calls have equal counters, the key they
\* will use next is written in no store, and the identity a rank read with
\* get is the one rank 0 generated for the key of that round, not one rank 0
\* generated for an earlier key.
KeyAgreement ==
  /\ \A p \in Ranks : counter_[p] = RoundsOf(p)
  /\ \A p, q \in Ranks : RoundsOf(p) = RoundsOf(q) => counter_[p] = counter_[q]
  /\ (\A p \in Ranks : RoundsOf(p) = RoundsOf(0)) =>
       \A s \in StoreObjs : store[s][counter_[0]] = NoVal
  /\ \A p \in Ranks :
       (Exchanged(p) /\ ~IsGenerator(p)) =>
         /\ key[p] = KeyString(counter_[p] - 1)
         /\ uniqueId[p] = generated[key[p][2]]
         /\ \A k \in KeyNums : k < key[p][2] => generated[k] # uniqueId[p]

\* after a first round in which getUniqueId failed on rank 0 and the get of
\* rank 1 timed out, rank 1 has read the identity of the second round
KeyAgreementWitness ==
  /\ size = 2
  /\ counter_[0] = 2
  /\ counter_[1] = 2
  /\ generated[0] = NoId
  /\ Exchanged(1)
  /\ key[1] = KeyString(1)
  /\ uniqueId[1] = generated[1]


\* C25: on DefaultXpuApi the barrier buffer of a live coordinator is on the
\* device the coordinator was assigned, the one g_devices holds at the index
\* passed to setDevice.
BufferOnAssignedDevice ==
  \A p \in Ranks :
    (life[p] = "live" /\ buffer_device[p] # NoDev) =>
      /\ device_[p] + 1 <= Len(g_devices)
      /\ buffer_device[p] = g_devices[device_[p] + 1]

\* C26: a getDeviceCount that reports success reports a count of at least 1;
\* so a constructor that derives the device index from the rank neither
\* divides by zero nor sees setDevice fail, and its index is rank mod count,
\* within [0, count); setDevice, once the runtime is initialized, returns
\* invalid-argument exactly for the indices outside [0, count).
DerivedDeviceValid ==
  /\ (zelast.op = "getDeviceCount" /\ zelast.status = ZE_RESULT_SUCCESS) =>
       zelast.value >= 1
  /\ (zelast.op = "setDevice"
      /\ zelast.status \in {ZE_RESULT_SUCCESS, ZE_RESULT_ERROR_INVALID_ARGUMENT}) =>
       (zelast.status = ZE_RESULT_ERROR_INVALID_ARGUMENT
          <=> (zelast.arg < 0 \/ zelast.arg >= zelast.value))
  /\ \A p \in Ranks :
       ctor[p].dev = -1 =>
         /\ ctor[p].err \notin {"trap", "setDevice"}
         /\ life[p] = "live" =>
              /\ ctor[p].count >= 1
              /\ device_[p] = p % ctor[p].count
              /\ device_[p] \in 0 .. (ctor[p].count - 1)

\* every device of the machine is an integrated GPU, or there is none
OnlyIntegrated ==
  \A i \in 1 .. Len(machine) :
    \A j \in 1 .. Len(machine[i]) : machine[i][j] = "igpu"

\* C27: once initLevelZero has succeeded the device list is not empty and
\* holds discrete GPUs only, and no later call changes the driver, the
\* device list, the device count, the context or the flag; on a machine
\* whose devices are all integrated GPUs, or that has no device, it never
\* succeeds.
OneShotDiscreteOnly ==
  /\ [](initialized =>
          /\ g_device_count >= 1
          /\ Len(g_devices) = g_device_count
          /\ \A j \in 1 .. Len(g_devices) :
               /\ g_devices[j] # NullDevice
               /\ machine[g_devices[j][1]][g_devices[j][2]] = "dgpu")
  /\ [](OnlyIntegrated => ~initialized)
  /\ [][initialized =>
          UNCHANGED <<g_driver, g_devices, g_device_count, g_context,
                      initialized>>]_vars

====
